---- MODULE Spec2Model ----
(***************************************************************************)
(* Model of server/server.js: the startup sequence of the module (client  *)
(* construction, top-level await of the embedding pipeline, app.listen)    *)
(* and the POST /api/search handler with its two suspension points.        *)
(*                                                                         *)
(* JavaScript values of a JSON request body are modelled as records        *)
(* [t, n, s]: t is the typeof-like tag, n the numeric value, s the string  *)
(* (a sequence of one-character strings).                                  *)
(***************************************************************************)
EXTENDS Integers, Sequences, FiniteSets

\* ------------------------------------------------------------------ bounds
\* Largest numeric topK a request carries (numbers range over -1..MaxTopK).
MaxTopK == 2
\* Largest numeric minImportance a request carries (numbers 0..MaxImportance).
MaxImportance == 2
\* Number of points stored in the collection the engine searches.
NumStored == 6
\* Number of request slots handled concurrently under SpecConc.
NumReq == 2

\* `topK = 5` and `|| 5` in the handler.
DefaultTopK == 5

\* ------------------------------------------------------- JavaScript values
Undef == [t |-> "undefined", n |-> 0, s |-> <<>>]
Null == [t |-> "object", n |-> 0, s |-> <<>>]
NaN == [t |-> "nan", n |-> 0, s |-> <<>>]
Num(k) == [t |-> "number", n |-> k, s |-> <<>>]
Str(cs) == [t |-> "string", n |-> 0, s |-> cs]

\* typeof v
TypeOf(v) == IF v.t = "nan" THEN "number" ELSE v.t

\* ToBoolean(v): undefined, null, NaN, 0 and "" are falsy.
Truthy(v) ==
  CASE v.t = "undefined" -> FALSE
    [] v.t = "object" -> FALSE
    [] v.t = "nan" -> FALSE
    [] v.t = "number" -> v.n # 0
    [] v.t = "string" -> Len(v.s) > 0
    [] OTHER -> TRUE

Digits == <<"0", "1", "2", "3", "4", "5", "6", "7", "8", "9">>
IsDigit(c) == \E d \in 1..10 : Digits[d] = c
DigitVal(c) == (CHOOSE d \in 1..10 : Digits[d] = c) - 1
IsSpace(c) == c = " "

RECURSIVE TrimLeft(_)
TrimLeft(cs) ==
  IF cs # <<>> /\ IsSpace(Head(cs)) THEN TrimLeft(Tail(cs)) ELSE cs

RECURSIVE TrimRight(_)
TrimRight(cs) ==
  IF cs # <<>> /\ IsSpace(cs[Len(cs)])
  THEN TrimRight(SubSeq(cs, 1, Len(cs) - 1))
  ELSE cs

RECURSIVE DigitsValue(_, _)
DigitsValue(cs, acc) ==
  IF cs = <<>> THEN acc ELSE DigitsValue(Tail(cs), acc * 10 + DigitVal(Head(cs)))

AllDigits(cs) == cs # <<>> /\ \A k \in 1..Len(cs) : IsDigit(cs[k])

\* StringToNumber on the decimal-integer part of the StringNumericLiteral
\* grammar: surrounding white space is trimmed, the empty string is 0, an
\* optional sign precedes the digits, anything else is NaN.
StringToNumber(cs) ==
  LET t == TrimRight(TrimLeft(cs))
      signed == t # <<>> /\ Head(t) \in {"-", "+"}
      body == IF signed THEN Tail(t) ELSE t
  IN  IF t = <<>> THEN Num(0)
      ELSE IF AllDigits(body)
           THEN IF signed /\ Head(t) = "-"
                THEN Num(0 - DigitsValue(body, 0))
                ELSE Num(DigitsValue(body, 0))
           ELSE NaN

\* Number(v)
ToNumber(v) ==
  CASE v.t = "undefined" -> NaN
    [] v.t = "object" -> Num(0)
    [] v.t = "nan" -> NaN
    [] v.t = "number" -> v
    [] v.t = "string" -> StringToNumber(v.s)
    [] OTHER -> NaN

\* Number.isNaN(v)
IsNaN(v) == v.t = "nan"

RECURSIVE NatToString(_)
NatToString(k) ==
  IF k < 10 THEN <<Digits[k + 1]>>
  ELSE NatToString(k \div 10) \o <<Digits[(k % 10) + 1]>>

\* String(v) for the identifier types the database uses (integers, strings).
StringOf(v) ==
  CASE v.t = "string" -> v
    [] v.t = "number" -> Str(IF v.n < 0 THEN <<"-">> \o NatToString(0 - v.n)
                              ELSE NatToString(v.n))
    [] OTHER -> Str(<<"?">>)

\* ------------------------------------------------------------ request body
\* express.json() leaves req.body undefined when there is no JSON body
\* (present = FALSE); otherwise each field is a JSON value or undefined.
EmptyObject ==
  [present |-> TRUE, query |-> Undef, topK |-> Undef, tag |-> Undef,
   minImportance |-> Undef, docId |-> Undef, source |-> Undef]
NoBody == [EmptyObject EXCEPT !.present = FALSE]

\* req.body || {}
BodyOrEmpty(b) == IF b.present THEN b ELSE EmptyObject

\* Variant: only `!query` is tested, the typeof test is lost.
ValidQueryTruthyOnly(query) == Truthy(query)

\* !query || typeof query !== 'string' is false
ValidQuery(query) == Truthy(query) /\ TypeOf(query) = "string"

\* Variant: non-positive values are replaced by the default too.
LimitPositiveOnly(topK) ==
  LET num == ToNumber(IF topK = Undef THEN Num(DefaultTopK) ELSE topK)
  IN  IF ~IsNaN(num) /\ num.n > 0 THEN num.n ELSE DefaultTopK

\* Variant: topK is ignored, the default is always sent.
LimitIgnoresTopK(topK) == DefaultTopK

\* const { topK = 5 } = ...; limit: Number(topK) || 5
Limit(topK) ==
  LET tk == IF topK = Undef THEN Num(DefaultTopK) ELSE topK
      num == ToNumber(tk)
  IN  IF Truthy(num) THEN num.n ELSE DefaultTopK

\* ------------------------------------------------------------- buildFilter
MatchClause(key, v) == [key |-> key, kind |-> "match", value |-> v]
RangeClause(key, num) == [key |-> key, kind |-> "range", value |-> num]

\* Variant: the clause is pushed for every field that is not undefined.
MatchClausesDefinedOnly(key, v) ==
  IF v # Undef THEN <<[key |-> key, kind |-> "match", value |-> v]>> ELSE <<>>

\* if (field) must.push({ key, match: { value: field } })
MatchClauses(key, v) == IF Truthy(v) THEN <<MatchClause(key, v)>> ELSE <<>>

\* Variant: the Number.isNaN test is lost.
ImportanceClausesNoNaNCheck(minImportance) ==
  IF Truthy(minImportance)
  THEN <<[key |-> "importance", kind |-> "range",
          value |-> ToNumber(minImportance)]>>
  ELSE <<>>

\* if (minImportance) { num = Number(..); if (!isNaN(num)) must.push(range) }
ImportanceClauses(minImportance) ==
  IF Truthy(minImportance)
  THEN LET num == ToNumber(minImportance)
       IN  IF ~IsNaN(num) THEN <<RangeClause("importance", num)>> ELSE <<>>
  ELSE <<>>

NoFilter == [defined |-> FALSE, must |-> <<>>]

\* return must.length ? { must } : undefined
FilterOf(must) ==
  IF Len(must) # 0 THEN [defined |-> TRUE, must |-> must] ELSE NoFilter

buildFilter(tag, minImportance, docId, source) ==
  FilterOf(MatchClauses("tags", tag)
           \o ImportanceClauses(minImportance)
           \o MatchClauses("doc_id", docId)
           \o MatchClauses("source", source))

\* ----------------------------------------------------------- collaborators
\* embedder(text, {pooling, normalize}) then Array.from(out.data): the
\* vector is a deterministic function of the text.
Embed(text) == <<"embedding">> \o text.s
NoVector == <<>>

\* The collection: points whose ids are integers or strings.
Stored ==
  [k \in 1..NumStored |->
     [id |-> IF k % 2 = 1 THEN Num(k) ELSE Str(<<"p", Digits[(k % 10) + 1]>>),
      score |-> NumStored - k,
      payload |-> k]]

NoArgs == [vector |-> NoVector, limit |-> 0, filter |-> NoFilter]

\* What qdrant.search may resolve to: an ordered list of at most `limit`
\* stored points.  No list meets a ceiling below 0, so such a call can only
\* reject.
SearchResults(args) ==
  {SubSeq(Stored, 1, n) : n \in {m \in 0..NumStored : m <= args.limit}}

\* h => ({ id: String(h.id), score: h.score, payload: h.payload })
Hit(h) == [id |-> StringOf(h.id), score |-> h.score, payload |-> h.payload]

\* res.json({ count: result.length, hits: result.map(...) })
Response200(result) ==
  [status |-> 200, keys |-> {"count", "hits"}, count |-> Len(result),
   hits |-> [k \in 1..Len(result) |-> Hit(result[k])]]

\* res.status(code).json({ error: ... })
ResponseError(code) ==
  [status |-> code, keys |-> {"error"}, count |-> 0, hits |-> <<>>]

\* ------------------------------------------------------------------- state
VARIABLES
  mainPc,       \* position of the module's top-level code
  qdrant,       \* the shared client handle
  embedder,     \* the shared model handle
  dbReachable,  \* environment: whether the vector database answers
  pc,           \* per request: position of the handler
  body,         \* per request: req.body
  vector,       \* per request: the handler's local `vector`
  searchArgs,   \* per request: the arguments qdrant.search was called with
  result,       \* per request: the handler's local `result`
  res,          \* per request: the responses sent, in order
  embedCalls,   \* per request: number of embedder invocations
  searchCalls,  \* per request: number of qdrant.search invocations
  embedOutcome, \* per request: "none", "pending", "ok" or "threw"
  searchOutcome \* per request: "none", "pending", "ok" or "threw"

vars ==
  <<mainPc, qdrant, embedder, dbReachable, pc, body, vector, searchArgs,
    result, res, embedCalls, searchCalls, embedOutcome, searchOutcome>>

startupVars == <<mainPc, qdrant, embedder>>
requestVars ==
  <<pc, body, vector, searchArgs, result, res, embedCalls, searchCalls,
    embedOutcome, searchOutcome>>

Slots == 1..NumReq

Init ==
  /\ mainPc = "start"
  /\ qdrant = "unset"
  /\ embedder = "unset"
  /\ dbReachable \in BOOLEAN
  /\ pc = [i \in Slots |-> "idle"]
  /\ body = [i \in Slots |-> NoBody]
  /\ vector = [i \in Slots |-> NoVector]
  /\ searchArgs = [i \in Slots |-> NoArgs]
  /\ result = [i \in Slots |-> <<>>]
  /\ res = [i \in Slots |-> <<>>]
  /\ embedCalls = [i \in Slots |-> 0]
  /\ searchCalls = [i \in Slots |-> 0]
  /\ embedOutcome = [i \in Slots |-> "none"]
  /\ searchOutcome = [i \in Slots |-> "none"]

\* ----------------------------------------------------------------- startup
\* const qdrant = new QdrantClient({url, apiKey}): builds the handle; no
\* request is sent to the database.
ConstructClient ==
  /\ mainPc = "start"
  /\ qdrant' = "client"
  /\ mainPc' = "loading"
  /\ UNCHANGED <<embedder, dbReachable, requestVars>>

\* const embedder = await pipeline(...) resolves.
LoadModelOk ==
  /\ mainPc = "loading"
  /\ embedder' = "model"
  /\ mainPc' = "ready"
  /\ UNCHANGED <<qdrant, dbReachable, requestVars>>

\* await pipeline(...) rejects: module evaluation ends with the rejection.
LoadModelFail ==
  /\ mainPc = "loading"
  /\ mainPc' = "crashed"
  /\ UNCHANGED <<qdrant, embedder, dbReachable, requestVars>>

\* Variant: the pipeline promise is not awaited before app.listen.
ListenWithoutAwait ==
  /\ mainPc \in {"loading", "ready"}
  /\ mainPc' = "listening"
  /\ UNCHANGED <<qdrant, embedder, dbReachable, requestVars>>

\* app.listen(PORT, ...), reached after the routes are registered.
Listen ==
  /\ mainPc = "ready"
  /\ mainPc' = "listening"
  /\ UNCHANGED <<qdrant, embedder, dbReachable, requestVars>>

\* ------------------------------------------------------- POST /api/search
\* Variant: the `return` before res.status(400) is lost, so the handler
\* goes on to embed after responding.
ReceiveNoReturn(i, bodies) ==
  /\ mainPc = "listening"
  /\ pc[i] = "idle"
  /\ \E b \in bodies :
       /\ body' = [body EXCEPT ![i] = b]
       /\ res' = [res EXCEPT ![i] =
                    IF ~(Truthy(BodyOrEmpty(b).query)
                         /\ TypeOf(BodyOrEmpty(b).query) = "string")
                    THEN Append(@, [status |-> 400, keys |-> {"error"},
                                    count |-> 0, hits |-> <<>>])
                    ELSE @]
  /\ embedCalls' = [embedCalls EXCEPT ![i] = @ + 1]
  /\ embedOutcome' = [embedOutcome EXCEPT ![i] = "pending"]
  /\ pc' = [pc EXCEPT ![i] = "awaitEmbed"]
  /\ UNCHANGED <<startupVars, dbReachable, vector, searchArgs, result,
                 searchCalls, searchOutcome>>

\* Entry of the handler up to its first suspension: destructure, validate,
\* then either respond 400 or call embed(query).  `bodies` is the set the
\* request's body is drawn from.
Receive(i, bodies) ==
  /\ mainPc = "listening"
  /\ pc[i] = "idle"
  /\ \E b \in bodies :
       /\ body' = [body EXCEPT ![i] = b]
       /\ IF ~ValidQuery(BodyOrEmpty(b).query)
          THEN /\ res' = [res EXCEPT ![i] = Append(@, ResponseError(400))]
               /\ pc' = [pc EXCEPT ![i] = "done"]
               /\ UNCHANGED <<embedCalls, embedOutcome>>
          ELSE /\ embedCalls' = [embedCalls EXCEPT ![i] = @ + 1]
               /\ embedOutcome' = [embedOutcome EXCEPT ![i] = "pending"]
               /\ pc' = [pc EXCEPT ![i] = "awaitEmbed"]
               /\ UNCHANGED res
  /\ UNCHANGED <<startupVars, dbReachable, vector, searchArgs, result,
                 searchCalls, searchOutcome>>

\* Variant: `vector` is a module-level variable, shared by all requests.
EmbedReturnShared(i) ==
  /\ pc[i] = "awaitEmbed"
  /\ LET f == BodyOrEmpty(body[i])
         v == <<"embedding">> \o f.query.s
     IN  /\ vector' = [j \in DOMAIN vector |-> v]
         /\ searchArgs' =
              [j \in DOMAIN searchArgs |->
                 IF j = i
                 THEN [vector |-> v,
                       limit |-> Limit(f.topK),
                       filter |-> buildFilter(f.tag, f.minImportance,
                                              f.docId, f.source)]
                 ELSE IF pc[j] = "awaitSearch"
                      THEN [searchArgs[j] EXCEPT !.vector = v]
                      ELSE searchArgs[j]]
  /\ embedOutcome' = [embedOutcome EXCEPT ![i] = "ok"]
  /\ searchCalls' = [searchCalls EXCEPT ![i] = @ + 1]
  /\ searchOutcome' = [searchOutcome EXCEPT ![i] = "pending"]
  /\ pc' = [pc EXCEPT ![i] = "awaitSearch"]
  /\ UNCHANGED <<startupVars, dbReachable, body, result, res, embedCalls>>

\* await embed(query) resolves: assign vector, build the filter, call
\* qdrant.search(COLLECTION, {vector, limit, filter, ...}).
EmbedReturn(i) ==
  /\ pc[i] = "awaitEmbed"
  /\ LET f == BodyOrEmpty(body[i])
         v == Embed(f.query)
     IN  /\ vector' = [vector EXCEPT ![i] = v]
         /\ searchArgs' =
              [searchArgs EXCEPT ![i] =
                 [vector |-> v,
                  limit |-> Limit(f.topK),
                  filter |-> buildFilter(f.tag, f.minImportance, f.docId,
                                         f.source)]]
  /\ embedOutcome' = [embedOutcome EXCEPT ![i] = "ok"]
  /\ searchCalls' = [searchCalls EXCEPT ![i] = @ + 1]
  /\ searchOutcome' = [searchOutcome EXCEPT ![i] = "pending"]
  /\ pc' = [pc EXCEPT ![i] = "awaitSearch"]
  /\ UNCHANGED <<startupVars, dbReachable, body, result, res, embedCalls>>

\* Variant: an embedding failure falls back to an empty vector and the
\* search is still issued.
EmbedFailFallback(i) ==
  /\ pc[i] = "awaitEmbed"
  /\ embedOutcome' = [embedOutcome EXCEPT ![i] = "threw"]
  /\ searchArgs' = [searchArgs EXCEPT ![i] = [@ EXCEPT !.limit = DefaultTopK]]
  /\ searchCalls' = [searchCalls EXCEPT ![i] = @ + 1]
  /\ searchOutcome' = [searchOutcome EXCEPT ![i] = "pending"]
  /\ pc' = [pc EXCEPT ![i] = "awaitSearch"]
  /\ UNCHANGED <<startupVars, dbReachable, body, vector, result, res,
                 embedCalls>>

\* await embed(query) rejects: catch, console.error, respond 500.
EmbedFail(i) ==
  /\ pc[i] = "awaitEmbed"
  /\ embedOutcome' = [embedOutcome EXCEPT ![i] = "threw"]
  /\ res' = [res EXCEPT ![i] = Append(@, ResponseError(500))]
  /\ pc' = [pc EXCEPT ![i] = "done"]
  /\ UNCHANGED <<startupVars, dbReachable, body, vector, searchArgs, result,
                 embedCalls, searchCalls, searchOutcome>>

\* await qdrant.search(...) resolves with r: respond with count and hits.
SearchReturn(i, r) ==
  /\ pc[i] = "awaitSearch"
  /\ dbReachable
  /\ r \in SearchResults(searchArgs[i])
  /\ result' = [result EXCEPT ![i] = r]
  /\ searchOutcome' = [searchOutcome EXCEPT ![i] = "ok"]
  /\ res' = [res EXCEPT ![i] = Append(@, Response200(r))]
  /\ pc' = [pc EXCEPT ![i] = "done"]
  /\ UNCHANGED <<startupVars, dbReachable, body, vector, searchArgs,
                 embedCalls, searchCalls, embedOutcome>>

\* await qdrant.search(...) rejects (unreachable database, rejected
\* parameters): catch, console.error, respond 500.
SearchFail(i) ==
  /\ pc[i] = "awaitSearch"
  /\ searchOutcome' = [searchOutcome EXCEPT ![i] = "threw"]
  /\ res' = [res EXCEPT ![i] = Append(@, ResponseError(500))]
  /\ pc' = [pc EXCEPT ![i] = "done"]
  /\ UNCHANGED <<startupVars, dbReachable, body, vector, searchArgs, result,
                 embedCalls, searchCalls, embedOutcome>>

\* ------------------------------------------------------------ input domains
Chars(str) ==
  CASE str = "" -> <<>>
    [] str = " " -> <<" ">>
    [] str = "abc" -> <<"a", "b", "c">>
    [] str = "cats" -> <<"c", "a", "t", "s">>
    [] str = "dogs" -> <<"d", "o", "g", "s">>
    [] str = "pets" -> <<"p", "e", "t", "s">>
    [] str = "d1" -> <<"d", "1">>
    [] str = "youtube" -> <<"y", "o", "u", "t", "u", "b", "e">>
    [] str = "0" -> <<"0">>
    [] str = "-1" -> <<"-", "1">>
    [] str = " 2 " -> <<" ", "2", " ">>
    [] str = "12" -> <<"1", "2">>

Queries == {Undef, Null, Str(Chars("")), Str(Chars("cats")), Num(7)}
TopKs ==
  {Undef, Null, Str(Chars("abc")), Str(Chars(" 2 ")), Str(Chars(""))}
    \cup {Num(k) : k \in -1..MaxTopK}
Tags == {Undef, Null, Num(0), Str(Chars("")), Str(Chars("pets"))}
MinImportances ==
  {Undef, Str(Chars("abc")), Str(Chars("0")), Str(Chars("")), Str(Chars("12"))}
    \cup {Num(k) : k \in 0..MaxImportance}
DocIds == {Undef, Str(Chars("d1"))}
Sources == {Undef, Str(Chars("youtube"))}

Bodies ==
  {NoBody} \cup
  [present : {TRUE}, query : Queries, topK : TopKs, tag : Tags,
   minImportance : MinImportances, docId : DocIds, source : Sources]

\* Bodies of the concurrent runs: they differ in every per-request datum.
ConcBodies ==
  [present : {TRUE},
   query : {Undef, Str(Chars("cats")), Str(Chars("dogs"))},
   topK : {Undef, Num(1)},
   tag : {Undef, Str(Chars("pets"))},
   minImportance : {Undef}, docId : {Undef}, source : {Undef}]

\* ---------------------------------------------------------- specifications
Startup == ConstructClient \/ LoadModelOk \/ LoadModelFail \/ Listen

\* One request, every body.
Next ==
  \/ Startup
  \/ Receive(1, Bodies)
  \/ EmbedReturn(1)
  \/ EmbedFail(1)
  \/ \E r \in SearchResults(searchArgs[1]) : SearchReturn(1, r)
  \/ SearchFail(1)

Spec == Init /\ [][Next]_vars

\* NumReq requests handled concurrently, interleaved at their awaits.
NextConc ==
  \/ Startup
  \/ \E i \in Slots :
       \/ Receive(i, ConcBodies)
       \/ EmbedReturn(i)
       \/ EmbedFail(i)
       \/ \E r \in SearchResults(searchArgs[i]) : SearchReturn(i, r)
       \/ SearchFail(i)

SpecConc == Init /\ [][NextConc]_vars

\* ------------------------------------------------------------------ claims
Fields(i) == BodyOrEmpty(body[i])
Sent(i) == Len(res[i]) = 1
Status(i) == res[i][1].status
ClausesOn(i, key) ==
  {k \in 1..Len(searchArgs[i].filter.must) :
     searchArgs[i].filter.must[k].key = key}
\* The value is neither undefined nor one of the falsy JSON values.
NonEmptyValue(v) ==
  /\ v.t # "undefined"
  /\ v.t # "object"
  /\ ~(v.t = "number" /\ v.n = 0)
  /\ ~(v.t = "string" /\ v.s = <<>>)
Count(cond) == IF cond THEN 1 ELSE 0

\* C1: a request whose body has no query, an empty query or a query that is
\* not text is answered 400 with an error body, and neither the embedder nor
\* the database search is invoked for it.
C1_InvalidQueryRejected ==
  \A i \in Slots :
    (pc[i] # "idle"
       /\ (~body[i].present \/ body[i].query.t # "string"
             \/ body[i].query.s = <<>>))
    => /\ res[i] = <<[status |-> 400, keys |-> {"error"}, count |-> 0,
                      hits |-> <<>>]>>
       /\ embedCalls[i] = 0
       /\ searchCalls[i] = 0
       /\ pc[i] = "done"

C1_Witness ==
  \E i \in Slots :
    /\ pc[i] = "done"
    /\ body[i].present
    /\ body[i].query = Num(7)
    /\ Sent(i) /\ Status(i) = 400

\* C2: when the embedding call or the search call of a valid request throws,
\* the request ends with status 500 and a body carrying only `error`, the
\* failed collaborator is not invoked again, and after an embedding failure
\* the search is never invoked.
C2_FailureIs500NoRetry ==
  \A i \in Slots :
    /\ (embedOutcome[i] = "threw" \/ searchOutcome[i] = "threw")
         => /\ Sent(i)
            /\ Status(i) = 500
            /\ res[i][1].keys = {"error"}
            /\ pc[i] = "done"
            /\ embedCalls[i] = 1
            /\ searchCalls[i] <= 1
    /\ embedOutcome[i] = "threw" => searchCalls[i] = 0
    /\ searchOutcome[i] = "threw" => searchCalls[i] = 1

C2_Witness ==
  \E i \in Slots :
    /\ searchOutcome[i] = "threw"
    /\ embedOutcome[i] = "ok"
    /\ Sent(i) /\ Status(i) = 500

\* C3 as stated: the limit sent to the search is 5 when topK is absent or
\* non-numeric, and every numeric topK, zero and negatives included, is
\* passed through unchanged.
C3_LimitPassThroughAll ==
  \A i \in Slots :
    searchCalls[i] >= 1 =>
      LET num == ToNumber(Fields(i).topK)
      IN  searchArgs[i].limit =
            IF Fields(i).topK = Undef \/ IsNaN(num) THEN 5 ELSE num.n

\* C3 amended: the limit is 5 when topK is absent, non-numeric or coerces
\* to zero; every other numeric topK, negatives included, is passed through
\* unchanged.
C3_LimitPassThroughNonZero ==
  \A i \in Slots :
    searchCalls[i] >= 1 =>
      LET num == ToNumber(Fields(i).topK)
      IN  /\ (Fields(i).topK = Undef \/ IsNaN(num) \/ num.n = 0)
               => searchArgs[i].limit = 5
          /\ (Fields(i).topK # Undef /\ ~IsNaN(num) /\ num.n # 0)
               => searchArgs[i].limit = num.n

C3_Witness ==
  \E i \in Slots :
    /\ searchCalls[i] = 1
    /\ Fields(i).topK = Num(-1)
    /\ searchArgs[i].limit = -1

\* C4: whenever minImportance is present and parses as a number n (zero
\* included), the filter holds exactly one range clause on `importance`
\* with gte = n; the clause is missing only when minImportance is absent or
\* does not parse.
C4_RangeClauseForEveryNumber ==
  \A i \in Slots :
    searchCalls[i] >= 1 =>
      LET mi == Fields(i).minImportance
          num == ToNumber(mi)
          on == ClausesOn(i, "importance")
      IN  IF mi # Undef /\ ~IsNaN(num)
          THEN /\ Cardinality(on) = 1
               /\ \A k \in on :
                    searchArgs[i].filter.must[k] =
                      [key |-> "importance", kind |-> "range", value |-> num]
          ELSE on = {}

\* C5: with none of the four fields supplied the search gets no filter
\* object (never an empty must list), and an unparsable minImportance gives
\* the filter that omitting it gives, without an error.
C5_NoFilterAndUnparsableDropped ==
  \A i \in Slots :
    searchCalls[i] >= 1 =>
      LET f == Fields(i)
          flt == searchArgs[i].filter
      IN  /\ flt.defined <=> flt.must # <<>>
          /\ (f.tag = Undef /\ f.minImportance = Undef /\ f.docId = Undef
                /\ f.source = Undef) => ~flt.defined
          /\ (f.minImportance # Undef /\ IsNaN(ToNumber(f.minImportance)))
               => /\ flt = buildFilter(f.tag, Undef, f.docId, f.source)
                  /\ ClausesOn(i, "importance") = {}
                  /\ embedOutcome[i] = "ok"

C5_Witness ==
  \E i \in Slots :
    /\ searchCalls[i] = 1
    /\ Fields(i).minImportance = Str(<<"a", "b", "c">>)
    /\ Fields(i).tag = Str(<<"p", "e", "t", "s">>)
    /\ Len(searchArgs[i].filter.must) = 1

\* Each of the three equality fields for which Has holds contributes exactly
\* one match clause on its key with its value, every other contributes none,
\* and the must list holds nothing besides these and the range clause.
EqualityClausesFor(i, Has(_)) ==
  LET f == Fields(i)
      must == searchArgs[i].filter.must
      One(key, v) ==
        IF Has(v)
        THEN /\ Cardinality(ClausesOn(i, key)) = 1
             /\ \A k \in ClausesOn(i, key) :
                  must[k] = [key |-> key, kind |-> "match", value |-> v]
        ELSE ClausesOn(i, key) = {}
  IN  /\ One("tags", f.tag)
      /\ One("doc_id", f.docId)
      /\ One("source", f.source)
      /\ Len(must) = Count(Has(f.tag)) + Count(Has(f.docId))
                       + Count(Has(f.source))
                       + Cardinality(ClausesOn(i, "importance"))
      /\ searchArgs[i].filter.defined <=> Len(must) > 0

IsSupplied(v) == v # Undef

\* C6 as stated: every field among tag, docId, source that is present
\* contributes exactly one equality clause on tags, doc_id, source with its
\* value, absent ones none, all in one must list.
C6_ClausePerPresentField ==
  \A i \in Slots : searchCalls[i] >= 1 => EqualityClausesFor(i, IsSupplied)

\* C6 amended: every field among tag, docId, source that is present with a
\* non-empty (truthy) value contributes exactly one equality clause on tags,
\* doc_id, source with its value; absent or empty ones contribute none; all
\* clauses are in one must list.
C6_ClausePerNonEmptyField ==
  \A i \in Slots : searchCalls[i] >= 1 => EqualityClausesFor(i, NonEmptyValue)

C6_Witness ==
  \E i \in Slots :
    /\ searchCalls[i] = 1
    /\ Fields(i).tag = Str(<<"p", "e", "t", "s">>)
    /\ Fields(i).docId # Undef
    /\ Fields(i).source # Undef
    /\ Fields(i).minImportance = Num(1)
    /\ Len(searchArgs[i].filter.must) = 4

\* C7: in every 200 response count equals the number of hits, and the
\* number of hits is at most the effective topK (5 when topK is absent or
\* not a positive number).
C7_CountAndCeiling ==
  \A i \in Slots :
    (Sent(i) /\ Status(i) = 200) =>
      LET num == ToNumber(Fields(i).topK)
          eff == IF Fields(i).topK = Undef \/ IsNaN(num) \/ num.n < 1
                 THEN 5 ELSE num.n
      IN  /\ res[i][1].count = Len(res[i][1].hits)
          /\ Len(res[i][1].hits) = Len(result[i])
          /\ Len(res[i][1].hits) <= eff

C7_Witness ==
  \E i \in Slots :
    /\ Sent(i) /\ Status(i) = 200
    /\ Fields(i).topK = Num(2)
    /\ res[i][1].count = 2

\* C8 as stated: the process listens only if the embedding model loaded and
\* the vector database could be reached at startup.
C8_ListenNeedsModelAndDatabase ==
  mainPc = "listening" => (embedder = "model" /\ dbReachable)

\* C8 amended: the process listens only after the client handle has been
\* constructed and the embedding model has loaded; when the model fails to
\* load it never listens and no request is served.  Whether the database
\* can be reached is not part of startup.
C8_ListenNeedsModelAndClient ==
  /\ mainPc = "listening" => (qdrant = "client" /\ embedder = "model")
  /\ mainPc # "listening" =>
       \A i \in Slots : pc[i] = "idle" /\ res[i] = <<>> /\ embedCalls[i] = 0
  /\ mainPc = "crashed" => embedder = "unset"

C8_Witness ==
  /\ mainPc = "listening"
  /\ ~dbReachable
  /\ \E i \in Slots : Sent(i) /\ Status(i) = 500 /\ searchOutcome[i] = "threw"

\* C9: under every interleaving, the vector, limit and filter a request
\* sends to the search and the response it gets depend only on its own body
\* and its own collaborator results; a request that has not arrived has no
\* data written to it; the two shared handles stay as startup left them.
C9_RequestsIsolated ==
  \A i \in Slots :
    /\ pc[i] # "idle" => (qdrant = "client" /\ embedder = "model")
    /\ pc[i] \in {"idle", "awaitEmbed"} =>
         (vector[i] = NoVector /\ searchArgs[i] = NoArgs /\ res[i] = <<>>)
    /\ searchOutcome[i] # "none" =>
         /\ vector[i] = <<"embedding">> \o body[i].query.s
         /\ searchArgs[i].vector = vector[i]
         /\ searchArgs[i].limit =
              (IF body[i].topK = Undef THEN 5 ELSE body[i].topK.n)
         /\ searchArgs[i].filter.must =
              (IF body[i].tag = Undef THEN <<>>
               ELSE <<[key |-> "tags", kind |-> "match",
                       value |-> body[i].tag]>>)
    /\ searchOutcome[i] = "ok" =>
         /\ Len(result[i]) <= searchArgs[i].limit
         /\ res[i] = <<[status |-> 200, keys |-> {"count", "hits"},
                        count |-> Len(result[i]),
                        hits |-> [k \in 1..Len(result[i]) |->
                                    [id |-> StringOf(result[i][k].id),
                                     score |-> result[i][k].score,
                                     payload |-> result[i][k].payload]]]>>

C9_Witness ==
  \E i, j \in Slots :
    /\ i # j
    /\ pc[i] = "awaitSearch" /\ pc[j] = "awaitSearch"
    /\ searchArgs[i].vector # searchArgs[j].vector
    /\ searchArgs[i].limit # searchArgs[j].limit
    /\ searchArgs[i].filter # searchArgs[j].filter

\* C10: per request the steps run in the order validate, embed, build
\* filter, search, respond: the search is invoked only after the request's
\* embedding returned, each collaborator at most once, and as soon as the
\* collaborators have returned or failed the request has exactly one
\* response, 200 with count and hits or 400/500 with error; no response is
\* sent while a collaborator is pending.
C10_LinearOrderOneResponse ==
  \A i \in Slots :
    /\ embedCalls[i] <= 1 /\ searchCalls[i] <= 1 /\ Len(res[i]) <= 1
    /\ embedCalls[i] = 1 <=> embedOutcome[i] # "none"
    /\ searchCalls[i] = 1 <=> searchOutcome[i] # "none"
    /\ searchCalls[i] = 1 => embedOutcome[i] = "ok"
    /\ (embedOutcome[i] = "pending" \/ searchOutcome[i] = "pending")
         => res[i] = <<>>
    /\ (embedOutcome[i] = "threw" \/ searchOutcome[i] \in {"ok", "threw"})
         => Sent(i)
    /\ pc[i] = "done" <=> Sent(i)
    /\ Sent(i) =>
         /\ Status(i) \in {200, 400, 500}
         /\ Status(i) = 200 =>
              (res[i][1].keys = {"count", "hits"} /\ searchOutcome[i] = "ok")
         /\ Status(i) = 400 =>
              (res[i][1].keys = {"error"} /\ embedCalls[i] = 0)
         /\ Status(i) = 500 =>
              (res[i][1].keys = {"error"}
                 /\ (embedOutcome[i] = "threw" \/ searchOutcome[i] = "threw"))

C10_Witness ==
  \E i, j \in Slots :
    /\ i # j
    /\ Sent(i) /\ Status(i) = 200 /\ Len(result[i]) > 0
    /\ Sent(j) /\ Status(j) = 400

====
